---- MODULE Spec2Model ----
(***************************************************************************)
(* Model of 3D-Image-Generation/streamlit.py: the upload form handlers,    *)
(* allowed_file, recreate_output_directory, test_hf_connection and         *)
(* generate_3d_model (save, convert, recreate outputs/, probe, connect     *)
(* with retry/backoff, predict, copy the artifacts, remove the temp dir).  *)
(*                                                                         *)
(* A file name is a sequence of one-character strings.  The file system,   *)
(* the HTTP probe, the gradio client and the remote call are the           *)
(* environment: each of their calls has the outcomes the code             *)
(* distinguishes (a return value or an exception), chosen with \E.         *)
(***************************************************************************)
EXTENDS Integers, Sequences, FiniteSets, TLC

\* ------------------------------------------------------------------ bounds

\* Number of form submissions (script reruns with a pressed submit button)
\* that the model follows.
MaxRuns == 2

\* ---------------------------------------------------------- file names

\* The characters the modelled uploads are written with.
Chars == {"a", "b", "c", "f", "g", "i", "m", "n", "p", "x",
          "G", "J", "P", ".", " ", "_"}

\* str.lower() on one character.
LowerChar(c) ==
    CASE c = "G" -> "g"
      [] c = "J" -> "j"
      [] c = "P" -> "p"
      [] OTHER -> c

\* str.lower()
Lower(s) == [i \in 1..Len(s) |-> LowerChar(s[i])]

\* ALLOWED_EXTENSIONS = {'png', 'jpg', 'jpeg', 'bmp', 'tiff', 'webp'}
ALLOWED_EXTENSIONS ==
    { <<"p","n","g">>, <<"j","p","g">>, <<"j","p","e","g">>,
      <<"b","m","p">>, <<"t","i","f","f">>, <<"w","e","b","p">> }

\* Positions of '.' in s.
DotPositions(s) == {i \in 1..Len(s) : s[i] = "."}

\* '.' in filename
HasDot(s) == DotPositions(s) # {}

Max(S) == CHOOSE m \in S : \A n \in S : n <= m

\* filename.rsplit('.', 1)[1]: the text after the right-most '.'
\* (only evaluated by allowed_file when the name has a '.').
RsplitExt(s) == SubSeq(s, Max(DotPositions(s)) + 1, Len(s))

\* A validator without the "'.' in filename" test, taking the last
\* '.'-separated piece as filename.split('.')[-1] does.
allowed_file_last_piece(filename) ==
    LET ext == IF HasDot(filename) THEN RsplitExt(filename) ELSE filename
    IN  Lower(ext) \in ALLOWED_EXTENSIONS

\* def allowed_file(filename)
allowed_file(filename) ==
    HasDot(filename) /\ Lower(RsplitExt(filename)) \in ALLOWED_EXTENSIONS

\* werkzeug.utils.secure_filename on Chars: "_".join(filename.split()) turns
\* every run of blanks into one '_' and drops leading and trailing blanks;
\* the characters of Chars other than ' ' are all kept by the ASCII filter;
\* then .strip("._") removes leading and trailing '.' and '_'.
RECURSIVE JoinBlanks(_, _)
JoinBlanks(s, pendingBlank) ==
    IF s = <<>> THEN <<>>
    ELSE IF Head(s) = " " THEN JoinBlanks(Tail(s), TRUE)
    ELSE (IF pendingBlank THEN <<"_">> ELSE <<>>) \o <<Head(s)>>
         \o JoinBlanks(Tail(s), FALSE)

RECURSIVE LStripBlanks(_)
LStripBlanks(s) ==
    IF s # <<>> /\ Head(s) = " " THEN LStripBlanks(Tail(s)) ELSE s

RECURSIVE LStripDots(_)
LStripDots(s) ==
    IF s # <<>> /\ Head(s) \in {".", "_"} THEN LStripDots(Tail(s)) ELSE s

RECURSIVE RStripDots(_)
RStripDots(s) ==
    IF s # <<>> /\ s[Len(s)] \in {".", "_"}
    THEN RStripDots(SubSeq(s, 1, Len(s) - 1)) ELSE s

secure_filename(name) ==
    RStripDots(LStripDots(JoinBlanks(LStripBlanks(name), FALSE)))

\* os.path.splitext(filename)[0]: the name up to its last '.', unless that
\* '.' is among the leading dots of the name (then the whole name).
LeadingDots(s) ==
    Cardinality({i \in 1..Len(s) : \A j \in 1..i : s[j] = "."})

splitext_root(s) ==
    IF HasDot(s) /\ Max(DotPositions(s)) > LeadingDots(s) + 1
    THEN SubSeq(s, 1, Max(DotPositions(s)) - 1)
    ELSE s


\* ------------------------------------------------------------- constants

\* generate_3d_model(..., retries=3, retry_delay=5): both handlers call it
\* with the defaults.
retries == 3
retry_delay == 5

\* The uploads the model submits: accepted names (a plain one, one with a
\* blank in the stem and an upper-case extension, one that is all extension) and
\* rejected ones (no '.', an extension-like name without '.', a foreign
\* extension, a trailing '.', an allowed extension that is not last, a
\* prefix and an extension of an allowed one).
UploadNames ==
    { <<"a",".","p","n","g">>,                  \* a.png
      <<"b"," ","c",".","J","P","G">>,          \* "b c.JPG"
      <<".","b","m","p">>,                      \* .bmp
      <<"a">>,                                  \* a
      <<"p","n","g">>,                          \* png
      <<"a",".","g","i","f">>,                  \* a.gif
      <<"a",".","p","n","g",".">>,              \* a.png.
      <<"a",".","p","n","g",".","x">>,          \* a.png.x
      <<"a",".","p","n">>,                      \* a.pn
      <<"a",".","p","n","g","x">> }             \* a.pngx

\* What st.file_uploader holds when the button is pressed: None or a file.
Uploads ==
    {[present |-> FALSE, name |-> <<>>]}
    \cup {[present |-> TRUE, name |-> n] : n \in UploadNames}

\* Browser sessions; each runs the script in its own thread of one process.
Procs == {1, 2}

\* ----------------------------------------------------------------- state

VARIABLES
    sess,       \* per session: the script's position and local variables
    outExists,  \* os.path.exists(OUTPUT_FOLDER)
    outFiles,   \* the files in OUTPUT_FOLDER, each with the run that wrote it
    tempDirs,   \* the tempfile.mkdtemp() directories that exist, by run
    nsub,       \* submissions (script reruns with a pressed button) so far
    lastRun     \* the latest submission that entered generate_3d_model

vars == <<sess, outExists, outFiles, tempDirs, nsub, lastRun>>

\* A path returned by generate_3d_model; NoPath is None.
NoPath == [base |-> <<>>, role |-> "none"]
OutPath(base, role) == [base |-> base, role |-> role]

\* (None, None, None)
NoneTriple == [model |-> NoPath, image |-> NoPath, video |-> NoPath]

\* os.path.exists(path) for a path under OUTPUT_FOLDER
PathExists(path) ==
    /\ outExists
    /\ \E f \in outFiles : f.base = path.base /\ f.role = path.role

\* The state of a session between script runs, with an empty page.
Fresh ==
    [ pc |-> "idle", form |-> "none", name |-> <<>>, generate_video |-> FALSE,
      sub |-> 0, filename |-> <<>>, base_filename |-> <<>>,
      attempt |-> 0, retry_delay |-> retry_delay, client |-> FALSE,
      result |-> [model |-> "none", video |-> "none"],
      ret |-> NoneTriple, shown |-> "none",
      msgs |-> {}, steps |-> <<>>, delays |-> <<>> ]

\* A session that no browser has opened.
Closed == [Fresh EXCEPT !.pc = "closed"]

Init ==
    /\ sess = [p \in Procs |-> IF p = 1 THEN Fresh ELSE Closed]
    /\ outExists = TRUE      \* os.makedirs(OUTPUT_FOLDER, exist_ok=True)
    /\ outFiles = {}
    /\ tempDirs = {}
    /\ nsub = 0
    /\ lastRun = 0

\* ------------------------------------------------------- step helpers

SetSess(p, r) == sess' = [sess EXCEPT ![p] = r]

\* The run's trace with one more executed step and its outcome.
Did(s, step, outcome) == Append(s.steps, <<step, outcome>>)

\* st.error(kind) followed by "return None, None, None".
Abort(s, step, outcome, kind) ==
    [s EXCEPT !.pc = "returned", !.ret = NoneTriple,
              !.msgs = @ \cup {kind}, !.steps = Did(s, step, outcome)]

\* The outer "except Exception": two st.error calls, then the None triple.
Except(s, step) == Abort(s, step, "raised", "Exception")


\* ------------------------------------------------------ the form handlers

\* "if submit_button and uploaded_file is not None:" with its allowed_file
\* test, up to the call of generate_3d_model.  The script's first lines
\* have run before it: os.makedirs(OUTPUT_FOLDER, exist_ok=True).
Handle(p, form, upload, gv) ==
    /\ sess[p].pc = "idle"
    /\ nsub < MaxRuns
    /\ nsub' = nsub + 1
    /\ outExists' = TRUE
    /\ UNCHANGED <<outFiles, tempDirs>>
    /\ lastRun' = IF upload.present /\ allowed_file(upload.name)
                  THEN nsub + 1 ELSE lastRun
    /\ LET page == [Fresh EXCEPT !.form = form] IN
       IF ~upload.present
       THEN SetSess(p, page)
       ELSE IF allowed_file(upload.name)
       THEN SetSess(p, [page EXCEPT !.pc = "mkdtemp", !.name = upload.name,
                                    !.generate_video = gv, !.sub = nsub + 1])
       ELSE SetSess(p, [page EXCEPT !.name = upload.name,
                                    !.shown = "invalid",
                                    !.msgs = {"InvalidFormat"}])

\* The basic form: generate_video = False.
SubmitBasic(p) ==
    \E upload \in Uploads : Handle(p, "basic", upload, FALSE)

\* The advanced form: generate_video_adv is the checkbox.
SubmitAdvanced(p) ==
    \E upload \in Uploads, gv \in BOOLEAN : Handle(p, "advanced", upload, gv)

\* ---------------------------------------------------- generate_3d_model

\* temp_dir = tempfile.mkdtemp(); filename = secure_filename(...)
MkTemp(p) ==
    LET s == sess[p] IN
    /\ s.pc = "mkdtemp"
    /\ \E ok \in BOOLEAN :
         IF ok
         THEN /\ tempDirs' = tempDirs \cup {s.sub}
              /\ SetSess(p, [s EXCEPT !.pc = "save",
                                      !.filename = secure_filename(s.name),
                                      !.steps = Did(s, "mkdtemp", "ok")])
         ELSE /\ tempDirs' = tempDirs
              /\ SetSess(p, Except(s, "mkdtemp"))
    /\ UNCHANGED <<outExists, outFiles, nsub, lastRun>>

\* with open(filepath, "wb") as f: f.write(uploaded_file.getbuffer())
SaveUpload(p) ==
    LET s == sess[p] IN
    /\ s.pc = "save"
    /\ \E ok \in BOOLEAN :
         IF ok
         THEN SetSess(p, [s EXCEPT !.pc = "convert",
                                   !.steps = Did(s, "save", "ok")])
         ELSE SetSess(p, Except(s, "save"))
    /\ UNCHANGED <<outExists, outFiles, tempDirs, nsub, lastRun>>

\* convert_image_format(filepath, jpeg_filepath), then base_filename.
Convert(p) ==
    LET s == sess[p] IN
    /\ s.pc = "convert"
    /\ \E ok \in BOOLEAN :
         IF ok
         THEN SetSess(p, [s EXCEPT !.pc = "rmtree",
                                   !.base_filename = splitext_root(s.filename),
                                   !.steps = Did(s, "convert", "ok")])
         ELSE SetSess(p, Abort(s, "convert", "failed", "ConversionFailed"))
    /\ UNCHANGED <<outExists, outFiles, tempDirs, nsub, lastRun>>

\* A recreate that waits until no other session is between its own recreate
\* and the end of its script run.
RemoveOutputLocked(p) ==
    LET s == sess[p] IN
    /\ s.pc = "rmtree"
    /\ \A q \in Procs \ {p} :
           sess[q].pc \in {"idle", "closed", "mkdtemp", "save", "convert", "rmtree"}
    /\ IF outExists
       THEN \E ok \in BOOLEAN :
              IF ok
              THEN /\ outExists' = FALSE
                   /\ outFiles' = {}
                   /\ SetSess(p, [s EXCEPT !.pc = "makedirs",
                                           !.steps = Did(s, "rmtree", "ok")])
              ELSE /\ outExists' = TRUE
                   /\ outFiles' \in SUBSET outFiles
                   /\ SetSess(p, [s EXCEPT !.pc = "makedirs",
                                           !.msgs = @ \cup {"RemoveFailed"},
                                           !.steps = Did(s, "rmtree", "failed")])
       ELSE /\ UNCHANGED <<outExists, outFiles>>
            /\ SetSess(p, [s EXCEPT !.pc = "makedirs",
                                    !.steps = Did(s, "rmtree", "skipped")])
    /\ UNCHANGED <<tempDirs, nsub, lastRun>>

\* recreate_output_directory, first half: shutil.rmtree(OUTPUT_FOLDER) when
\* the directory exists.  A failing rmtree has removed any part of the
\* content; its exception ends in st.error and the function goes on.
RemoveOutput(p) ==
    LET s == sess[p] IN
    /\ s.pc = "rmtree"
    /\ IF outExists
       THEN \E ok \in BOOLEAN :
              IF ok
              THEN /\ outExists' = FALSE
                   /\ outFiles' = {}
                   /\ SetSess(p, [s EXCEPT !.pc = "makedirs",
                                           !.steps = Did(s, "rmtree", "ok")])
              ELSE /\ outExists' = TRUE
                   /\ outFiles' \in SUBSET outFiles
                   /\ SetSess(p, [s EXCEPT !.pc = "makedirs",
                                           !.msgs = @ \cup {"RemoveFailed"},
                                           !.steps = Did(s, "rmtree", "failed")])
       ELSE /\ UNCHANGED <<outExists, outFiles>>
            /\ SetSess(p, [s EXCEPT !.pc = "makedirs",
                                    !.steps = Did(s, "rmtree", "skipped")])
    /\ UNCHANGED <<tempDirs, nsub, lastRun>>

\* recreate_output_directory, second half: os.makedirs(OUTPUT_FOLDER,
\* exist_ok=True); its exception ends in st.error and the function returns.
MakeOutput(p) ==
    LET s == sess[p] IN
    /\ s.pc = "makedirs"
    /\ \E ok \in (IF outExists THEN {TRUE} ELSE BOOLEAN) :
         IF ok
         THEN /\ outExists' = TRUE
              /\ SetSess(p, [s EXCEPT !.pc = "probe",
                                      !.steps = Did(s, "makedirs", "ok")])
         ELSE /\ outExists' = FALSE
              /\ SetSess(p, [s EXCEPT !.pc = "probe",
                                      !.msgs = @ \cup {"CreateFailed"},
                                      !.steps = Did(s, "makedirs", "failed")])
    /\ UNCHANGED <<outFiles, tempDirs, nsub, lastRun>>

\* What requests.get(space_url) gives test_hf_connection: status 200, the
\* rate-limit status 429, another status, or an exception.
ProbeOutcomes == {"ok", "r429", "status", "raised"}

\* def test_hf_connection(space_url)
test_hf_connection(outcome) == outcome = "ok"

\* "if not test_hf_connection(hf_space_url): ... return None, None, None",
\* then attempt = 0.
Probe(p) ==
    LET s == sess[p] IN
    /\ s.pc = "probe"
    /\ \E o \in ProbeOutcomes :
         IF test_hf_connection(o)
         THEN SetSess(p, [s EXCEPT !.pc = "connect", !.attempt = 0,
                                   !.steps = Did(s, "probe", o)])
         ELSE SetSess(p, Abort(s, "probe", o, "Unreachable"))
    /\ UNCHANGED <<outExists, outFiles, tempDirs, nsub, lastRun>>

\* What Client(hf_space_url, hf_token=HF_TOKEN) does: returns, raises a
\* ValueError whose text holds "429", raises another ValueError, or raises
\* an exception that is no ValueError.
ConnectOutcomes == {"ok", "r429", "valerr", "raised"}

\* "while attempt < retries:"
WhileCond(attempt) == attempt < retries

\* "except ValueError as e: ... if "429" in error_msg:"
IsRateLimitAny(outcome) == outcome \in {"r429", "valerr"}
IsRateLimit(outcome) == outcome = "r429"

\* "attempt += 1; if attempt < retries:" on the incremented attempt
MayRetryOnce(attempt) == attempt < 2
MayRetry(attempt) == attempt < retries

\* "retry_delay *= 2"
BackoffShrink(d) == d \div 2
Backoff(d) == d * 2

\* One pass of the connection loop.
Connect(p) ==
    LET s == sess[p] IN
    /\ s.pc = "connect"
    /\ IF WhileCond(s.attempt)
       THEN \E o \in ConnectOutcomes :
              IF o = "ok"
              THEN SetSess(p, [s EXCEPT !.pc = "predict", !.client = TRUE,
                                        !.steps = Did(s, "connect", o)])
              ELSE IF o = "raised"
              THEN SetSess(p, Except(s, "connect"))
              ELSE IF IsRateLimit(o)
              THEN IF MayRetry(s.attempt + 1)
                   THEN SetSess(p, [s EXCEPT
                            !.attempt = @ + 1,
                            !.msgs = @ \cup {"RateLimitedRetrying"},
                            !.delays = Append(@, s.retry_delay),
                            !.retry_delay = Backoff(@),
                            !.steps = Did(s, "connect", o)])
                   ELSE SetSess(p, [Abort(s, "connect", o, "RateLimitExhausted")
                                     EXCEPT !.attempt = @ + 1])
              ELSE SetSess(p, Abort(s, "connect", o, "ConnectError"))
       ELSE SetSess(p, [s EXCEPT !.pc = "predict"])
    /\ UNCHANGED <<outExists, outFiles, tempDirs, nsub, lastRun>>


\* What client.predict(..., api_name="/generate3dv2") does: returns the
\* pair (model_path, video_path), raises an exception whose text holds
\* "exceeded your GPU quota", one whose text holds "429", or another one.
PredictOutcomes == {"ok", "quota", "r429", "raised"}

\* A returned path is None or empty ("none"), names no file on disk
\* ("missing"), or names a downloaded file ("file").
PathKinds == {"none", "missing", "file"}

\* The service renders a preview video only when its "Generate video"
\* argument is set; otherwise video_path is None.
RemoteVideoKinds(gv) == IF gv THEN PathKinds ELSE {"none"}

\* "if "exceeded your GPU quota" in error_message or "429" in error_message"
IsQuota(outcome) == outcome \in {"quota", "r429"}

\* The progress bar and client.predict in their try block.  With the loop
\* left without a client the name is unbound and the same handler reports it.
Predict(p) ==
    LET s == sess[p] IN
    /\ s.pc = "predict"
    /\ IF ~s.client
       THEN SetSess(p, [s EXCEPT !.pc = "returned", !.ret = NoneTriple,
                                 !.msgs = @ \cup {"InferenceError"}])
       ELSE \E o \in PredictOutcomes :
              IF o = "ok"
              THEN \E m \in PathKinds, v \in RemoteVideoKinds(s.generate_video) :
                     SetSess(p, [s EXCEPT !.pc = "check",
                                          !.result = [model |-> m, video |-> v],
                                          !.steps = Did(s, "predict", o)])
              ELSE IF IsQuota(o)
              THEN SetSess(p, Abort(s, "predict", o, "QuotaExceeded"))
              ELSE SetSess(p, Abort(s, "predict", o, "InferenceError"))
    /\ UNCHANGED <<outExists, outFiles, tempDirs, nsub, lastRun>>

\* "if not model_path or not os.path.exists(model_path):"
CheckResult(p) ==
    LET s == sess[p] IN
    /\ s.pc = "check"
    /\ IF s.result.model # "file"
       THEN SetSess(p, Abort(s, "check", "missing", "MissingAsset"))
       ELSE SetSess(p, [s EXCEPT !.pc = "copy_model",
                                 !.steps = Did(s, "check", "ok")])
    /\ UNCHANGED <<outExists, outFiles, tempDirs, nsub, lastRun>>

\* shutil.copyfile into OUTPUT_FOLDER: the file of that name is replaced.
CopyInto(files, base, role, sub) ==
    {f \in files : ~(f.base = base /\ f.role = role)}
    \cup {[base |-> base, role |-> role, sub |-> sub]}

\* One shutil.copyfile(src, os.path.join(OUTPUT_FOLDER, name)) of the run:
\* it raises when the directory is missing, and may raise otherwise.
CopyStep(p, at, role, next) ==
    LET s == sess[p] IN
    /\ s.pc = at
    /\ \E ok \in (IF outExists THEN BOOLEAN ELSE {FALSE}) :
         IF ok
         THEN /\ outFiles' = CopyInto(outFiles, s.base_filename, role, s.sub)
              /\ SetSess(p, [s EXCEPT !.pc = next,
                                      !.steps = Did(s, at, "ok")])
         ELSE /\ outFiles' = outFiles
              /\ SetSess(p, Except(s, at))
    /\ UNCHANGED <<outExists, tempDirs, nsub, lastRun>>

\* shutil.copyfile(model_path, output_model_path)
CopyModel(p) == CopyStep(p, "copy_model", "3d_model", "copy_image")

\* shutil.copyfile(jpeg_filepath, output_image_path)
CopyImage(p) == CopyStep(p, "copy_image", "original", "copy_video")

\* "if video_path and os.path.exists(video_path):" with its copyfile.
CopyVideo(p) ==
    IF sess[p].result.video = "file"
    THEN CopyStep(p, "copy_video", "video", "rm_temp")
    ELSE /\ sess[p].pc = "copy_video"
         /\ SetSess(p, [sess[p] EXCEPT !.pc = "rm_temp",
                                       !.steps = Did(sess[p], "copy_video", "skipped")])
         /\ UNCHANGED <<outExists, outFiles, tempDirs, nsub, lastRun>>

\* shutil.rmtree(temp_dir) and the return of the three paths.
RmTemp(p) ==
    LET s == sess[p] IN
    /\ s.pc = "rm_temp"
    /\ \E ok \in BOOLEAN :
         IF ok
         THEN /\ tempDirs' = tempDirs \ {s.sub}
              /\ SetSess(p, [s EXCEPT
                     !.pc = "returned",
                     !.ret = [model |-> OutPath(s.base_filename, "3d_model"),
                              image |-> OutPath(s.base_filename, "original"),
                              video |-> IF s.result.video = "file"
                                        THEN OutPath(s.base_filename, "video")
                                        ELSE NoPath],
                     !.steps = Did(s, "rm_temp", "ok")])
         ELSE /\ tempDirs' = tempDirs
              /\ SetSess(p, Except(s, "rm_temp"))
    /\ UNCHANGED <<outExists, outFiles, nsub, lastRun>>

\* The handler after the call: "if model_path and os.path.exists(model_path)"
\* shows the viewer and the download links, else create_fallback_message().
\* get_binary_file_downloader_html opens the model and the image outside any
\* try: with the image gone the script run ends in FileNotFoundError.
\* The script run ends: the page and the returned paths stay, the locals of
\* generate_3d_model and the trace of the run are gone.
Display(p) ==
    LET s == sess[p] IN
    /\ s.pc = "returned"
    /\ SetSess(p, [Fresh EXCEPT
           !.form = s.form, !.sub = s.sub, !.ret = s.ret, !.msgs = s.msgs,
           !.shown = IF s.ret.model # NoPath /\ PathExists(s.ret.model)
                     THEN (IF PathExists(s.ret.image)
                           THEN "success" ELSE "crash")
                     ELSE "fallback"])
    /\ UNCHANGED <<outExists, outFiles, tempDirs, nsub, lastRun>>

\* ---------------------------------------------------------- specification

Step(p) ==
    \/ SubmitBasic(p)
    \/ SubmitAdvanced(p)
    \/ MkTemp(p)
    \/ SaveUpload(p)
    \/ Convert(p)
    \/ RemoveOutput(p)
    \/ MakeOutput(p)
    \/ Probe(p)
    \/ Connect(p)
    \/ Predict(p)
    \/ CheckResult(p)
    \/ CopyModel(p)
    \/ CopyImage(p)
    \/ CopyVideo(p)
    \/ RmTemp(p)
    \/ Display(p)

Next == \E p \in Procs : Step(p)

\* One browser session submitting one form after another.
Spec == Init /\ [][Next]_vars


\* ------------------------------------------------- reading a run's trace

IsRemoteStep(e) == e[1] \in {"probe", "connect", "predict"}
IsConnectStep(e) == e[1] = "connect"

\* The remote calls of the run, in order, each with its outcome.
RemoteCalls(s) == SelectSeq(s.steps, IsRemoteStep)

\* The Client(...) attempts of the run, in order.
ConnectCalls(s) == SelectSeq(s.steps, IsConnectStep)

\* Every local file operation of the run so far went through.
LocalOK(s) ==
    \A i \in 1..Len(s.steps) :
        IsRemoteStep(s.steps[i]) \/ s.steps[i][2] \in {"ok", "skipped"}

NonDecreasing(d) == \A i, j \in 1..Len(d) : i <= j => d[i] <= d[j]

Finished(s) == s.pc = "returned"

\* ------------------------------------------------------------------- C1

\* The claim's reading of a name: it has no '.', or the text after its last
\* '.', in lower case, is none of the allowed extensions.
ExtensionNotAllowed(n) ==
    \/ \A i \in 1..Len(n) : n[i] # "."
    \/ \E k \in 1..Len(n) :
         /\ n[k] = "."
         /\ \A j \in (k + 1)..Len(n) : n[j] # "."
         /\ \A e \in ALLOWED_EXTENSIONS :
              Lower(SubSeq(n, k + 1, Len(n))) # e

\* C1: a submission (basic or advanced form) of a file whose name has no
\* '.' or whose extension, compared case-insensitively, is outside the
\* allow-list is rejected with the invalid-format error: the session never
\* enters generate_3d_model, makes no probe, connection or inference call,
\* and creates no temporary directory for it.
C1_RejectedBeforeNetwork ==
    \A p \in Procs :
        LET s == sess[p] IN
        (s.name # <<>> /\ ExtensionNotAllowed(s.name)) =>
            /\ s.pc = "idle"
            /\ s.shown = "invalid"
            /\ s.msgs = {"InvalidFormat"}
            /\ s.steps = <<>>
            /\ s.sub = 0
            /\ s.ret = NoneTriple
            /\ lastRun < nsub

\* A rejected upload whose name holds an allowed extension that is not the
\* last one (a.png.x), on the advanced form.
C1_Witness ==
    \E p \in Procs :
        /\ sess[p].name = <<"a", ".", "p", "n", "g", ".", "x">>
        /\ sess[p].form = "advanced"
        /\ sess[p].shown = "invalid"

\* ------------------------------------------------------------------- C9

\* C9: within one submission there are at most `retries` connection
\* attempts and at most one inference call; a remote call is followed by
\* another remote call only when it succeeded or was a connection attempt
\* that raised the rate-limit signal; nothing remote follows the inference
\* call, whatever its outcome.
C9_OnlyRateLimitRetried ==
    \A p \in Procs :
        LET r == RemoteCalls(sess[p]) IN
        /\ Len(ConnectCalls(sess[p])) <= retries
        /\ Cardinality({i \in 1..Len(r) : r[i][1] = "predict"}) <= 1
        /\ \A i \in 1..Len(r) :
             /\ (i < Len(r) /\ r[i][2] # "ok") => r[i] = <<"connect", "r429">>
             /\ r[i][1] = "predict" => i = Len(r)
        /\ (Finished(sess[p]) /\ Len(r) > 0 /\ r[Len(r)][2] # "ok")
              => sess[p].ret = NoneTriple

\* A run that was rate-limited twice, connected on the last allowed attempt
\* and then met the quota error of the inference call.
C9_Witness ==
    \E p \in Procs :
        /\ Finished(sess[p])
        /\ Len(ConnectCalls(sess[p])) = retries
        /\ "QuotaExceeded" \in sess[p].msgs
        /\ sess[p].steps[Len(sess[p].steps)] = <<"predict", "quota">>


\* ------------------------------------------------------------------- C4

\* The outcomes c so far are those of an endpoint that gives the rate-limit
\* signal n times and succeeds from then on.
LimitedThenOk(c, n) ==
    \A i \in 1..Len(c) : c[i][2] = (IF i <= n THEN "r429" ELSE "ok")

\* The inference call, if the run reached it, returned a model file.
ModelReturned(s) ==
    \A i \in 1..Len(s.steps) :
        s.steps[i][1] = "predict" => s.result.model = "file"

\* C4 as stated: when the endpoint answers its first N requests of a run
\* with the 429 rate-limit signal and every later one with success, N below
\* the retry bound, and nothing local fails, the finished run returns a
\* non-empty result after N+1 attempts with non-decreasing delays.
C4_AsStated ==
    \A p \in Procs : \A n \in 0..(retries - 1) :
        LET s == sess[p] IN
        (Finished(s) /\ LocalOK(s) /\ ModelReturned(s)
           /\ LimitedThenOk(RemoteCalls(s), n)) =>
            /\ s.ret # NoneTriple
            /\ Len(ConnectCalls(s)) = n + 1
            /\ NonDecreasing(s.delays)

\* C4, amended: when the probe answers 200, the client connection raises
\* the 429 rate-limit signal N times and then succeeds, N below the retry
\* bound, the inference call returns a model file and nothing local fails,
\* the finished run returns a non-empty result after exactly N+1 connection
\* attempts, having slept N times with non-decreasing delays.
C4_RetryThenSuccess ==
    \A p \in Procs : \A n \in 0..(retries - 1) :
        LET s == sess[p] IN
        (Finished(s) /\ LocalOK(s) /\ ModelReturned(s)
           /\ (\E i \in 1..Len(s.steps) : s.steps[i] = <<"probe", "ok">>)
           /\ (\A i \in 1..Len(s.steps) :
                  s.steps[i][1] = "predict" => s.steps[i][2] = "ok")
           /\ LimitedThenOk(ConnectCalls(s), n)) =>
            /\ s.ret # NoneTriple
            /\ s.ret.model = OutPath(s.base_filename, "3d_model")
            /\ Len(ConnectCalls(s)) = n + 1
            /\ Len(s.delays) = n
            /\ NonDecreasing(s.delays)

\* A successful run that was rate-limited twice and slept 5 s, then 10 s.
C4_Witness ==
    \E p \in Procs :
        /\ Finished(sess[p])
        /\ sess[p].ret # NoneTriple
        /\ Len(ConnectCalls(sess[p])) = retries
        /\ sess[p].delays = <<retry_delay, 2 * retry_delay>>

\* ------------------------------------------------------------------- C5

\* Every remote call of the run was answered with the rate-limit signal.
AlwaysLimited(c) == Len(c) > 0 /\ \A i \in 1..Len(c) : c[i][2] = "r429"

\* C5 as stated: when the endpoint answers every request of a run with the
\* rate-limit signal, the finished run has used up its retries and returns
\* the empty result with the terminal rate-limit error.
C5_AsStated ==
    \A p \in Procs :
        LET s == sess[p] IN
        (Finished(s) /\ LocalOK(s) /\ AlwaysLimited(RemoteCalls(s))) =>
            /\ Len(ConnectCalls(s)) = retries
            /\ "RateLimitExhausted" \in s.msgs
            /\ s.ret = NoneTriple

\* C5, amended: a run never makes more than `retries` connection attempts.
\* When the probe answers 200 and every connection attempt raises the
\* rate-limit signal, the finished run has made exactly `retries` attempts
\* and retries-1 sleeps, made no inference call, and returns the empty
\* result with the terminal rate-limit error.  When the probe itself is
\* answered 429, the run ends at once with the unreachable-service error
\* and the empty result, without any connection attempt.
C5_ExhaustsRetries ==
    \A p \in Procs :
        LET s == sess[p]
            c == ConnectCalls(s) IN
        /\ Len(c) <= retries
        /\ (Finished(s) /\ AlwaysLimited(c)) =>
              /\ Len(c) = retries
              /\ Len(s.delays) = retries - 1
              /\ s.msgs = {"RateLimitedRetrying", "RateLimitExhausted"}
                          \cup (s.msgs \cap {"RemoveFailed", "CreateFailed"})
              /\ s.ret = NoneTriple
              /\ \A i \in 1..Len(s.steps) : s.steps[i][1] # "predict"
        /\ (Finished(s) /\ AlwaysLimited(RemoteCalls(s)) /\ Len(c) = 0) =>
              /\ RemoteCalls(s) = << <<"probe", "r429">> >>
              /\ "Unreachable" \in s.msgs
              /\ "RateLimitExhausted" \notin s.msgs
              /\ s.ret = NoneTriple

\* A run that ended with the terminal rate-limit error on its last attempt.
C5_Witness ==
    \E p \in Procs :
        /\ Finished(sess[p])
        /\ AlwaysLimited(ConnectCalls(sess[p]))
        /\ "RateLimitExhausted" \in sess[p].msgs
        /\ sess[p].attempt = retries


\* ------------------------------------------------------------------- C2

FilesOfRole(role) == {f \in outFiles : f.role = role}

\* C2: when a run returns a non-empty result, the output directory holds
\* exactly one model asset, named {base}_3d_model, exactly one copy of the
\* source image, named {base}_original, and a video asset {base}_video
\* exactly when generate_video was set and the remote call returned a video.
C2_ExactArtifacts ==
    \A p \in Procs :
        LET s == sess[p] IN
        (Finished(s) /\ s.ret # NoneTriple) =>
            /\ outExists
            /\ Cardinality(FilesOfRole("3d_model")) = 1
            /\ \A f \in FilesOfRole("3d_model") : f.base = s.base_filename
            /\ Cardinality(FilesOfRole("original")) = 1
            /\ \A f \in FilesOfRole("original") : f.base = s.base_filename
            /\ (\E f \in FilesOfRole("video") : f.base = s.base_filename)
                  <=> (s.generate_video /\ s.result.video = "file")

\* ------------------------------------------------------------------- C3

\* No run of generate_3d_model is in progress.
Quiescent == \A p \in Procs : sess[p].pc \in {"idle", "returned", "closed"}

\* C3: after any sequence of runs, one after the other, every file of the
\* output directory was written by one run, and that run is the latest one
\* (whose artifacts may be none), whatever its outcome.
C3_SingleSlot ==
    Quiescent => \A f \in outFiles : f.sub = lastRun

\* ------------------------------------------------------------------- C6

\* C6: when the inference call returns a model path that is empty or names
\* no file, the run returns the empty result with the missing-asset error,
\* has written no file into the output directory, and the output directory
\* is empty when it returns.
C6_MissingAssetLeavesNothing ==
    \A p \in Procs :
        LET s == sess[p] IN
        (Finished(s) /\ Len(s.steps) > 0
           /\ s.steps[Len(s.steps)] = <<"check", "missing">>) =>
            /\ s.ret = NoneTriple
            /\ "MissingAsset" \in s.msgs
            /\ \A f \in outFiles : f.sub # s.sub
            /\ outFiles = {}

\* ------------------------------------------------------------------- C7

\* The messages st.error shows.
ErrorKinds ==
    {"Exception", "ConversionFailed", "RemoveFailed", "CreateFailed",
     "Unreachable", "RateLimitExhausted", "ConnectError", "QuotaExceeded",
     "InferenceError", "MissingAsset"}

\* A step of the run failed: any outcome other than success, except a
\* rate-limit signal that the connection loop answered with a retry.
Failed(s) ==
    \E i \in 1..Len(s.steps) :
        /\ s.steps[i][2] \notin {"ok", "skipped"}
        /\ ~(s.steps[i] = <<"connect", "r429">> /\ i < Len(s.steps))

\* C7: every failure inside generate_3d_model (conversion, unreachable
\* service, rate-limit exhaustion, other connection error, inference error,
\* missing asset, file system error) ends in the empty triple with an error
\* message on the page, and the handler then shows the fallback message.
C7_FailuresReturnEmpty ==
    \A p \in Procs :
        LET s == sess[p] IN
        /\ (Finished(s) /\ Failed(s)) =>
              /\ s.ret = NoneTriple
              /\ s.msgs \cap ErrorKinds # {}
        /\ (s.pc = "idle" /\ s.sub # 0 /\ s.ret = NoneTriple) =>
              s.shown = "fallback"

\* ------------------------------------------------------------------- C8

\* A failed local step: saving or converting the image, removing or
\* creating the output directory, copying an artifact.
IsFsFailure(e) ==
    /\ e[1] \in {"save", "convert", "rmtree", "makedirs",
                 "copy_model", "copy_image", "copy_video"}
    /\ e[2] \in {"failed", "raised"}

\* C8: a failure to save or convert the image, to remove or recreate the
\* output directory, or to copy an artifact is the last step of its run:
\* no later step is executed, the run returns the empty result, and no
\* artifact of the run is left in the output directory.
C8_FsFailureAborts ==
    \A p \in Procs :
        LET s == sess[p] IN
        \A i \in 1..Len(s.steps) :
            IsFsFailure(s.steps[i]) =>
                /\ i = Len(s.steps)
                /\ s.ret = NoneTriple
                /\ \A f \in outFiles : f.sub # s.sub

\* ------------------------------------------------------------------ C10

\* C10: when a run of generate_3d_model returns, on any outcome, the
\* temporary directory it created no longer exists.
C10_TempDirDiscarded ==
    \A p \in Procs : Finished(sess[p]) => sess[p].sub \notin tempDirs


\* ------------------------------------------------- two browser sessions

\* Two sessions are open: Streamlit runs the script of each in a thread of
\* its own, over the same OUTPUT_FOLDER.
InitConc ==
    /\ sess = [p \in Procs |-> Fresh]
    /\ outExists = TRUE
    /\ outFiles = {}
    /\ tempDirs = {}
    /\ nsub = 0
    /\ lastRun = 0

\* The files the two sessions upload: two accepted names with different
\* base names, so that two runs meet with the same name or with two.
ConcNames ==
    { <<"a",".","p","n","g">>, <<"b"," ","c",".","J","P","G">> }

\* Every submission carried one of these files, and no call of a run has
\* failed: every file operation went through, the probe answered 200, the
\* client connected at once and the inference call returned a model file
\* and no path of a missing video.
Calm ==
    \A p \in Procs :
        /\ sess[p].name \in ConcNames \cup {<<>>}
        /\ sess[p].pc = "idle" /\ sess[p].form # "none" => sess[p].sub # 0
        /\ \A i \in 1..Len(sess[p].steps) :
               sess[p].steps[i][2] \in {"ok", "skipped"}
        /\ sess[p].pc = "check" =>
               /\ sess[p].result.model = "file"
               /\ sess[p].result.video # "missing"

\* A step of a session, in an environment where nothing fails.
StepConc(p) ==
    \/ SubmitBasic(p) /\ Calm'
    \/ SubmitAdvanced(p) /\ Calm'
    \/ MkTemp(p) /\ Calm'
    \/ SaveUpload(p) /\ Calm'
    \/ Convert(p) /\ Calm'
    \/ RemoveOutput(p) /\ Calm'
    \/ MakeOutput(p) /\ Calm'
    \/ Probe(p) /\ Calm'
    \/ Connect(p) /\ Calm'
    \/ Predict(p) /\ Calm'
    \/ CheckResult(p) /\ Calm'
    \/ CopyModel(p) /\ Calm'
    \/ CopyImage(p) /\ Calm'
    \/ CopyVideo(p) /\ Calm'
    \/ RmTemp(p) /\ Calm'
    \/ Display(p) /\ Calm'

NextConc == \E p \in Procs : StepConc(p)

\* Two sessions whose runs interleave statement by statement, with no
\* failure of the file system or of the remote service.  At most MaxRuns
\* runs are started between them.
SpecConc == InitConc /\ [][NextConc]_vars

\* ------------------------------------------------------------------ C11

\* The run of session p has copied an artifact into the output directory
\* and has not returned yet, or has returned and is not yet displayed.
HasCopied(p) ==
    /\ sess[p].pc \in {"copy_image", "copy_video", "rm_temp", "returned"}
    /\ \E f \in outFiles : f.sub = sess[p].sub

\* C11: nothing guards the output directory against a second run: whenever
\* one run has already copied artifacts there and the run of another
\* session stands at its recreate of the directory, the recreate can go
\* ahead, and it deletes everything the first run copied.
C11_RecreateUnguarded ==
    \A p \in Procs : \A q \in Procs \ {p} :
        (HasCopied(p) /\ sess[q].pc = "rmtree") =>
            ENABLED (RemoveOutput(q) /\ outFiles' = {})

\* With no call failing, a run has returned its three paths although its
\* model file is gone: the other session's recreate removed it after the
\* run had copied it and before the run copied its image, which is there.
C11_Witness ==
    \E p \in Procs : \E q \in Procs \ {p} :
        /\ Finished(sess[p])
        /\ sess[p].ret # NoneTriple
        /\ ~PathExists(sess[p].ret.model)
        /\ \E f \in outFiles : f.sub = sess[p].sub /\ f.role = "original"
        /\ \E i \in 1..Len(sess[q].steps) : sess[q].steps[i] = <<"rmtree", "ok">>

====
